---- MODULE Spec2Model ----
(***************************************************************************)
(* Model of dryoc's DryocStream (src/src/dryocstream.rs): the push and     *)
(* pull sessions of a libsodium-style secretstream, the Tag flag set, and  *)
(* the three classic primitives the sessions delegate to.                  *)
(*                                                                         *)
(* The classic functions crypto_secretstream_xchacha20poly1305_* live in   *)
(* crate::classic, which is not part of src/; they are modelled from the   *)
(* written description of the engine (sections 4.3 and 4.4).  The stream   *)
(* cipher and the MAC are opaque deterministic primitives: a derived key   *)
(* and a MAC are represented by the term of their inputs (an injective     *)
(* encoding as a sequence of naturals), so two of them are equal exactly   *)
(* when their inputs are.  Bytes are ByteBits wide, the block counter is   *)
(* CounterBits wide and usize is UsizeBits wide.                           *)
(***************************************************************************)
EXTENDS Integers, Sequences, FiniteSets, TLC

\* ------------------------------------------------------------------ bounds
MaxPush == 2
MaxRekey == 1
MaxLong == 4

\* --------------------------------------------------------------- constants
ByteBits == 3
CounterBits == 2
UsizeBits == 6
ABYTES == 17
TAG_MESSAGE == 0
TAG_PUSH == 1
TAG_REKEY == 2

\* ------------------------------------------------------------ bit helpers
RECURSIVE Pow2(_)
Pow2(n) == IF n = 0 THEN 1 ELSE 2 * Pow2(n - 1)

RECURSIVE BitXorN(_, _, _)
BitXorN(a, b, n) ==
    IF n = 0 THEN 0
    ELSE ((a + b) % 2) + 2 * BitXorN(a \div 2, b \div 2, n - 1)

RECURSIVE BitAndN(_, _, _)
BitAndN(a, b, n) ==
    IF n = 0 THEN 0
    ELSE ((a % 2) * (b % 2)) + 2 * BitAndN(a \div 2, b \div 2, n - 1)

RECURSIVE BitOrN(_, _, _)
BitOrN(a, b, n) ==
    IF n = 0 THEN 0
    ELSE (IF (a % 2) + (b % 2) > 0 THEN 1 ELSE 0)
         + 2 * BitOrN(a \div 2, b \div 2, n - 1)

Xor(a, b) == BitXorN(a, b, ByteBits)
And(a, b) == BitAndN(a, b, ByteBits)
Or(a, b) == BitOrN(a, b, ByteBits)

Byte == 0 .. (Pow2(ByteBits) - 1)
CounterMax == Pow2(CounterBits) - 1
UsizeMod == Pow2(UsizeBits)
IsizeMax == Pow2(UsizeBits - 1) - 1

\* -------------------------------------------------------------------- Tag
\* bitflags! { pub struct Tag: u8 { MESSAGE, PUSH, REKEY, FINAL } }
MESSAGE == TAG_MESSAGE
PUSH == TAG_PUSH
REKEY == TAG_REKEY
FINAL == Or(PUSH, REKEY)
Tag == {MESSAGE, PUSH, REKEY, FINAL}

\* Tag::all().bits(): the union of every declared flag.
Tag_all == Or(Or(MESSAGE, PUSH), Or(REKEY, FINAL))

\* Mutant of from_bits: a byte is accepted only when it equals one of the
\* three flags declared on their own.
from_bits_single_flag(bits) ==
    IF bits \in {MESSAGE, PUSH, REKEY}
    THEN [some |-> TRUE, tag |-> bits]
    ELSE [some |-> FALSE, tag |-> 0]

\* Tag::from_bits: None when a bit outside the declared flags is set.
from_bits(bits) ==
    IF And(bits, Xor(Tag_all, Pow2(ByteBits) - 1)) = 0
    THEN [some |-> TRUE, tag |-> bits]
    ELSE [some |-> FALSE, tag |-> 0]

\* impl From<u8> for Tag: from_bits(other).expect("Unable to parse tag").
Tag_from_u8(other) ==
    IF from_bits(other).some
    THEN [kind |-> "Ok", tag |-> from_bits(other).tag]
    ELSE [kind |-> "Panic", tag |-> 0]

\* Tag | Tag and Tag & Tag, as bitflags! derives them.
union(a, b) == Or(a, b)
intersection(a, b) == And(a, b)

\* ---------------------------------------------------- classic secretstream
\* State::new(): an all-zero state, overwritten by init_push / init_pull.
State_new == [k |-> <<>>, nonce |-> [counter |-> 0, inonce |-> 0]]

\* A header is <<first 16 bytes, last 8 bytes>>.  The subkey is the
\* HChaCha-style mix of the key with the header's first part; the nonce is a
\* zero counter followed by the header's last 8 bytes.
crypto_secretstream_init(header, key) ==
    [k |-> <<key, header[1]>>,
     nonce |-> [counter |-> 0, inonce |-> header[2]]]

crypto_secretstream_xchacha20poly1305_init_push(rnd, key) ==
    [state |-> crypto_secretstream_init(rnd, key), header |-> rnd]

crypto_secretstream_xchacha20poly1305_init_pull(header, key) ==
    crypto_secretstream_init(header, key)

\* The output block of the rekey derivation over (subkey, nonce).
RekeyBlock(state) ==
    state.k \o <<state.nonce.counter, state.nonce.inonce>>

\* rekey: new (subkey, nonce suffix) from the current state, counter zero.
crypto_secretstream_xchacha20poly1305_rekey(state) ==
    [k |-> RekeyBlock(state),
     nonce |-> [counter |-> 0, inonce |-> Len(RekeyBlock(state))]]

\* Step 6: counter + 1, carrying into the suffix on overflow.
AdvanceNonce(nonce) ==
    IF nonce.counter + 1 = Pow2(CounterBits)
    THEN [counter |-> 0, inonce |-> nonce.inonce + 1]
    ELSE [counter |-> nonce.counter + 1, inonce |-> nonce.inonce]

\* Steps 6 and 7, shared by push and by a successful pull.
AdvanceState(state, tag) ==
    LET adv == [state EXCEPT !.nonce = AdvanceNonce(state.nonce)]
    IN  IF And(tag, TAG_REKEY) # 0 \/ adv.nonce.counter = CounterMax
        THEN crypto_secretstream_xchacha20poly1305_rekey(adv)
        ELSE adv

\* Keystream byte i of the message blocks, and the byte that masks the tag.
KeystreamByte(state, i) ==
    (Len(state.k) + state.nonce.counter + state.nonce.inonce + i)
        % Pow2(ByteBits)

XorStream(state, bytes) ==
    [i \in 1 .. Len(bytes) |-> Xor(bytes[i], KeystreamByte(state, i))]

\* The one-time MAC over (framing byte, associated data, body): the term of
\* everything it depends on, with the lengths that make the encoding
\* injective, followed by the difference from the true value (0: intact).
MacTerm(state, ad, tagc, body) ==
    <<Len(state.k)>> \o state.k
        \o <<state.nonce.counter, state.nonce.inonce, Len(ad)>> \o ad
        \o <<tagc, Len(body)>> \o body \o <<0>>

NoCiphertext == [len |-> 0, tagc |-> 0, body |-> <<>>, mac |-> <<>>]

crypto_secretstream_xchacha20poly1305_push(state, clen, message, ad, tag) ==
    IF clen < Len(message) + ABYTES
    THEN [ok |-> FALSE, err |-> "BufferTooSmall", state |-> state,
          c |-> NoCiphertext]
    ELSE LET tagc == Xor(tag, KeystreamByte(state, 0))
             body == XorStream(state, message)
         IN  [ok |-> TRUE, err |-> "",
              state |-> AdvanceState(state, tag),
              c |-> [len |-> clen, tagc |-> tagc, body |-> body,
                     mac |-> MacTerm(state, ad, tagc, body)]]

crypto_secretstream_xchacha20poly1305_pull(state, ciphertext, ad) ==
    IF ciphertext.len < ABYTES
    THEN [ok |-> FALSE, err |-> "InvalidInput", state |-> state,
          m |-> <<>>, tag |-> 0]
    ELSE IF ciphertext.mac
            # MacTerm(state, ad, ciphertext.tagc, ciphertext.body)
    THEN [ok |-> FALSE, err |-> "AuthenticationFailed", state |-> state,
          m |-> <<>>, tag |-> 0]
    ELSE LET tag == Xor(ciphertext.tagc, KeystreamByte(state, 0))
         IN  [ok |-> TRUE, err |-> "",
              state |-> AdvanceState(state, tag),
              m |-> XorStream(state, ciphertext.body), tag |-> tag]

\* ------------------------------------------------------------ DryocStream
\* struct DryocStream<Mode> { state: State, phantom: PhantomData<Mode> }
DryocStream(state, mode) == [state |-> state, phantom |-> mode]

\* impl DryocStream<Push> has push, impl DryocStream<Pull> has pull, and
\* impl<M> DryocStream<M> has rekey: what a session of either mode admits.
Admits(self, op) ==
    \/ op = "rekey"
    \/ op = "push" /\ self.phantom = "Push"
    \/ op = "pull" /\ self.phantom = "Pull"

\* Mutant of rekey: the session is rebuilt with the other mode's marker.
rekey_flips_mode(self) ==
    DryocStream(crypto_secretstream_xchacha20poly1305_rekey(self.state),
                IF self.phantom = "Push" THEN "Pull" ELSE "Push")

\* Mutant of rekey: the call to the classic rekey is lost.
rekey_noop(self) == self

\* DryocStream<M>::rekey
rekey(self) ==
    [self EXCEPT !.state = crypto_secretstream_xchacha20poly1305_rekey(@)]

\* DryocStream<Push>::init_push; rnd is the header the random source yields.
init_push(key, rnd) ==
    LET r == crypto_secretstream_xchacha20poly1305_init_push(rnd, key)
    IN  [stream |-> DryocStream(r.state, "Push"), header |-> r.header]

\* Mutant of init_pull: the header is not used, the state is derived from
\* the key and an all-zero header.
init_pull_without_header(key, header) ==
    DryocStream(
        crypto_secretstream_xchacha20poly1305_init_pull(<<0, 0>>, key),
        "Pull")

\* DryocStream<Pull>::init_pull
init_pull(key, header) ==
    DryocStream(
        crypto_secretstream_xchacha20poly1305_init_pull(header, key), "Pull")

\* Mutant of push: the associated data is not forwarded (None is passed).
push_without_ad(self, message, associated_data, tag) ==
    LET clen == Len(message) + ABYTES
        r == crypto_secretstream_xchacha20poly1305_push(
                 self.state, clen, message, <<>>, tag)
    IN  [self |-> [self EXCEPT !.state = r.state],
         res |-> IF r.ok
                 THEN [kind |-> "Ok", err |-> "", c |-> r.c]
                 ELSE [kind |-> "Err", err |-> r.err, c |-> NoCiphertext]]

\* Mutant of push: the tag is not forwarded (TAG_MESSAGE is passed).
push_untagged(self, message, associated_data, tag) ==
    LET clen == Len(message) + ABYTES
        r == crypto_secretstream_xchacha20poly1305_push(
                 self.state, clen, message, associated_data, TAG_MESSAGE)
    IN  [self |-> [self EXCEPT !.state = r.state],
         res |-> IF r.ok
                 THEN [kind |-> "Ok", err |-> "", c |-> r.c]
                 ELSE [kind |-> "Err", err |-> r.err, c |-> NoCiphertext]]

\* Mutant of push: the output is resized to one byte more than needed.
push_oversized(self, message, associated_data, tag) ==
    LET clen == Len(message) + ABYTES + 1
        r == crypto_secretstream_xchacha20poly1305_push(
                 self.state, clen, message, associated_data, tag)
    IN  [self |-> [self EXCEPT !.state = r.state],
         res |-> IF r.ok
                 THEN [kind |-> "Ok", err |-> "", c |-> r.c]
                 ELSE [kind |-> "Err", err |-> r.err, c |-> NoCiphertext]]

\* DryocStream<Push>::push.  The output is resized to len + ABYTES, the
\* classic push is handed tag.bits(), and `?` propagates its error.
push(self, message, associated_data, tag) ==
    LET clen == Len(message) + ABYTES
        r == crypto_secretstream_xchacha20poly1305_push(
                 self.state, clen, message, associated_data, tag)
    IN  [self |-> [self EXCEPT !.state = r.state],
         res |-> IF r.ok
                 THEN [kind |-> "Ok", err |-> "", c |-> r.c]
                 ELSE [kind |-> "Err", err |-> r.err, c |-> NoCiphertext]]

\* What every pull mutant shares with pull: the two panics on the way to the
\* classic pull.
PullPanic(self, ciphertext, overflow_checks) ==
    IF ciphertext.len < ABYTES /\ overflow_checks
    THEN [self |-> self,
          res |-> [kind |-> "Panic",
                   err |-> "attempt to subtract with overflow",
                   m |-> <<>>, tag |-> 0]]
    ELSE [self |-> self,
          res |-> [kind |-> "Panic", err |-> "capacity overflow",
                   m |-> <<>>, tag |-> 0]]

Panics(ciphertext, overflow_checks) ==
    \/ ciphertext.len < ABYTES /\ overflow_checks
    \/ (ciphertext.len + UsizeMod - ABYTES) % UsizeMod > IsizeMax

\* Mutant of pull: the classic pull's Result is dropped instead of `?`, so
\* a failure returns the zero-filled buffer and the zero tag.
pull_unchecked(self, ciphertext, associated_data, overflow_checks) ==
    LET r == crypto_secretstream_xchacha20poly1305_pull(
                 self.state, ciphertext, associated_data)
        after == [self EXCEPT !.state = r.state]
    IN  IF Panics(ciphertext, overflow_checks)
        THEN PullPanic(self, ciphertext, overflow_checks)
        ELSE IF ~r.ok
        THEN [self |-> after,
              res |-> [kind |-> "Ok", err |-> "",
                       m |-> [i \in 1 .. (ciphertext.len - ABYTES) |-> 0],
                       tag |-> from_bits(0).tag]]
        ELSE IF ~from_bits(r.tag).some
        THEN [self |-> after,
              res |-> [kind |-> "Panic", err |-> "invalid tag",
                       m |-> <<>>, tag |-> 0]]
        ELSE [self |-> after,
              res |-> [kind |-> "Ok", err |-> "",
                       m |-> r.m, tag |-> from_bits(r.tag).tag]]

\* Mutant of pull: the classic pull works on a copy of the state, which is
\* then dropped.
pull_on_copy(self, ciphertext, associated_data, overflow_checks) ==
    LET r == crypto_secretstream_xchacha20poly1305_pull(
                 self.state, ciphertext, associated_data)
    IN  IF Panics(ciphertext, overflow_checks)
        THEN PullPanic(self, ciphertext, overflow_checks)
        ELSE IF ~r.ok
        THEN [self |-> self,
              res |-> [kind |-> "Err", err |-> r.err,
                       m |-> <<>>, tag |-> 0]]
        ELSE IF ~from_bits(r.tag).some
        THEN [self |-> self,
              res |-> [kind |-> "Panic", err |-> "invalid tag",
                       m |-> <<>>, tag |-> 0]]
        ELSE [self |-> self,
              res |-> [kind |-> "Ok", err |-> "",
                       m |-> r.m, tag |-> from_bits(r.tag).tag]]

\* Mutant of pull: the state is wiped when the classic pull fails.
pull_wipes_on_error(self, ciphertext, associated_data, overflow_checks) ==
    LET r == crypto_secretstream_xchacha20poly1305_pull(
                 self.state, ciphertext, associated_data)
        after == [self EXCEPT !.state = r.state]
    IN  IF Panics(ciphertext, overflow_checks)
        THEN PullPanic(self, ciphertext, overflow_checks)
        ELSE IF ~r.ok
        THEN [self |-> [self EXCEPT !.state = State_new],
              res |-> [kind |-> "Err", err |-> r.err,
                       m |-> <<>>, tag |-> 0]]
        ELSE IF ~from_bits(r.tag).some
        THEN [self |-> after,
              res |-> [kind |-> "Panic", err |-> "invalid tag",
                       m |-> <<>>, tag |-> 0]]
        ELSE [self |-> after,
              res |-> [kind |-> "Ok", err |-> "",
                       m |-> r.m, tag |-> from_bits(r.tag).tag]]

\* Mutant of pull: a FINAL tag closes the session, wiping its state.
pull_closes_on_final(self, ciphertext, associated_data, overflow_checks) ==
    LET r == crypto_secretstream_xchacha20poly1305_pull(
                 self.state, ciphertext, associated_data)
        after == [self EXCEPT !.state = r.state]
    IN  IF Panics(ciphertext, overflow_checks)
        THEN PullPanic(self, ciphertext, overflow_checks)
        ELSE IF ~r.ok
        THEN [self |-> after,
              res |-> [kind |-> "Err", err |-> r.err,
                       m |-> <<>>, tag |-> 0]]
        ELSE IF ~from_bits(r.tag).some
        THEN [self |-> after,
              res |-> [kind |-> "Panic", err |-> "invalid tag",
                       m |-> <<>>, tag |-> 0]]
        ELSE [self |-> IF r.tag = FINAL
                       THEN [self EXCEPT !.state = State_new]
                       ELSE after,
              res |-> [kind |-> "Ok", err |-> "",
                       m |-> r.m, tag |-> from_bits(r.tag).tag]]

\* DryocStream<Pull>::pull.  The output length is the usize difference
\* len - ABYTES, computed and resized to before the classic pull is called:
\* with overflow checks the subtraction panics when len < ABYTES, without
\* them it wraps and the resize to more than isize::MAX bytes panics.  After
\* a successful classic pull the tag byte goes through from_bits(..).expect.
pull(self, ciphertext, associated_data, overflow_checks) ==
    LET wrapped == (ciphertext.len + UsizeMod - ABYTES) % UsizeMod
        r == crypto_secretstream_xchacha20poly1305_pull(
                 self.state, ciphertext, associated_data)
        after == [self EXCEPT !.state = r.state]
    IN  IF ciphertext.len < ABYTES /\ overflow_checks
        THEN [self |-> self,
              res |-> [kind |-> "Panic",
                       err |-> "attempt to subtract with overflow",
                       m |-> <<>>, tag |-> 0]]
        ELSE IF wrapped > IsizeMax
        THEN [self |-> self,
              res |-> [kind |-> "Panic", err |-> "capacity overflow",
                       m |-> <<>>, tag |-> 0]]
        ELSE IF ~r.ok
        THEN [self |-> after,
              res |-> [kind |-> "Err", err |-> r.err,
                       m |-> <<>>, tag |-> 0]]
        ELSE IF ~from_bits(r.tag).some
        THEN [self |-> after,
              res |-> [kind |-> "Panic", err |-> "invalid tag",
                       m |-> <<>>, tag |-> 0]]
        ELSE [self |-> after,
              res |-> [kind |-> "Ok", err |-> "",
                       m |-> r.m, tag |-> from_bits(r.tag).tag]]

\* ------------------------------------------------------------------ state
VARIABLES
    key,          \* the shared secret key
    header,       \* the header init_push returned
    push_stream,  \* the DryocStream<Push>
    pull_stream,  \* the DryocStream<Pull>, from init_pull(key, header)
    wire,         \* the chunks pushed so far, with what was pushed
    phist,        \* push side history: n for the n-th push, 0 for a rekey
    qhist,        \* pull side history: n for a pull of chunk n that
                  \* returned Ok, 0 for a rekey, -1 for a pull of a chunk
                  \* the push session never pushed that changed the state
    seen,         \* the states each session has left behind
    last,         \* the last operation, its input and its result
    twin,         \* a second DryocStream<Pull>, from init_pull(key, header)
    thist,        \* the twin's history, as qhist
    tagop         \* two bytes, and the last Tag operation made on them

vars ==
    <<key, header, push_stream, pull_stream, wire, phist, qhist, seen, last,
      twin, thist, tagop>>

\* What the operations on push_stream and pull_stream leave alone.
others == <<twin, thist, tagop>>

Keys == {11}
Headers == {<<21, 31>>}
Messages == {<<>>, <<5>>, <<2, 6>>}
AssociatedData == {<<>>, <<3>>}

\* What the Push action draws from: every tag, and every shape of message
\* and associated data (empty, one byte, two bytes; absent, present).
PushInputs ==
    {[m |-> <<5>>, ad |-> <<>>, tag |-> MESSAGE],
     [m |-> <<>>, ad |-> <<3>>, tag |-> PUSH],
     [m |-> <<2, 6>>, ad |-> <<3>>, tag |-> REKEY],
     [m |-> <<5>>, ad |-> <<>>, tag |-> FINAL]}

\* Lengths below ABYTES that PullShort tries.
ShortLens == {0, ABYTES - 1}

NoResult == [kind |-> "", err |-> "", m |-> <<>>, tag |-> 0]
Last(op, idx, tamper, res) ==
    [op |-> op, idx |-> idx, tamper |-> tamper, res |-> res]

NoTag == [kind |-> "", tag |-> 0]
TagOp(a, b, op, res) == [a |-> a, b |-> b, op |-> op, res |-> res]

\* init_push(key) with rnd from the random source, the header handed to
\* init_pull twice; a and b are the bytes the Tag operations work on.
Setup(k, rnd, a, b) ==
    /\ key = k
    /\ header = init_push(k, rnd).header
    /\ push_stream = init_push(k, rnd).stream
    /\ pull_stream = init_pull(k, init_push(k, rnd).header)
    /\ wire = <<>>
    /\ phist = <<>>
    /\ qhist = <<>>
    /\ seen = [push |-> {}, pull |-> {}]
    /\ last = Last("init", 0, "none", NoResult)
    /\ twin = init_pull(k, init_push(k, rnd).header)
    /\ thist = <<>>
    /\ tagop = TagOp(a, b, "none", NoTag)

Init == \E k \in Keys, rnd \in Headers : Setup(k, rnd, 0, 0)

Count(h, x) == Cardinality({i \in 1 .. Len(h) : h[i] = x})

\* The chunk the pull session is at: one past the pulls that returned Ok.
Cursor == Cardinality({n \in 1 .. Len(qhist) : qhist[n] > 0}) + 1

\* ---------------------------------------------------------------- tampering
\* A single flipped bit of a chunk (framing byte, body byte or MAC) or of the
\* associated data handed to pull.
Tampers(e) ==
    {[kind |-> kd, pos |-> 0, bit |-> b] :
            kd \in {"tagc", "mac"}, b \in 0 .. (ByteBits - 1)}
    \cup {[kind |-> "body", pos |-> p, bit |-> b] :
            p \in 1 .. Len(e.c.body), b \in 0 .. (ByteBits - 1)}
    \cup {[kind |-> "ad", pos |-> p, bit |-> b] :
            p \in 1 .. Len(e.ad), b \in 0 .. (ByteBits - 1)}

Flip(byte, bit) == Xor(byte, Pow2(bit))

TamperChunk(c, t) ==
    CASE t.kind = "tagc" -> [c EXCEPT !.tagc = Flip(@, t.bit)]
      [] t.kind = "body" -> [c EXCEPT !.body[t.pos] = Flip(@, t.bit)]
      [] t.kind = "mac" -> [c EXCEPT !.mac[Len(c.mac)] = Flip(@, t.bit)]
      [] OTHER -> c

TamperAd(ad, t) ==
    IF t.kind = "ad" THEN [ad EXCEPT ![t.pos] = Flip(@, t.bit)] ELSE ad

\* A ciphertext of n < ABYTES bytes: only its length is ever looked at.
ShortCiphertext(n) == [NoCiphertext EXCEPT !.len = n]

\* The tag bytes Tag::from_bits rejects.
ForeignTags == {b \in Byte : ~from_bits(b).some}

\* A chunk that authenticates in state `state` and carries the tag byte b:
\* what a peer holding the key makes with the classic push.
ForeignChunk(state, b) ==
    crypto_secretstream_xchacha20poly1305_push(
        state, 1 + ABYTES, <<5>>, <<>>, b).c

\* ---------------------------------------------------------------- actions
\* One thread drives both sessions, as in the module example and the tests: a
\* panic unwinds it, and nothing is called after.
Running == last.res.kind # "Panic"

\* The bookkeeping of a push: the chunk goes on the wire.
Pushed(in, r) ==
    /\ Running
    /\ Admits(push_stream, "push")
    /\ r.res.kind = "Ok"
    /\ push_stream' = r.self
    /\ wire' = Append(wire, [c |-> r.res.c, ad |-> in.ad,
                             m |-> in.m, tag |-> in.tag])
    /\ phist' = Append(phist, Len(wire) + 1)
    /\ seen' = [seen EXCEPT !.push = @ \cup {push_stream.state}]
    /\ last' = Last("push", Len(wire) + 1, "none", NoResult)
    /\ UNCHANGED <<key, header, pull_stream, qhist, others>>

\* The bookkeeping of a pull of chunk i (0: not a chunk of the wire).
Pulled(i, tamper, r) ==
    /\ Running
    /\ Admits(pull_stream, "pull")
    /\ pull_stream' = r.self
    /\ qhist' = IF r.res.kind = "Ok" THEN Append(qhist, i)
               ELSE IF r.self # pull_stream THEN Append(qhist, -1)
               ELSE qhist
    /\ seen' = IF r.res.kind = "Ok" \/ r.self # pull_stream
               THEN [seen EXCEPT !.pull = @ \cup {pull_stream.state}]
               ELSE seen
    /\ last' = Last("pull", i, tamper, r.res)
    /\ UNCHANGED <<key, header, push_stream, wire, phist, others>>

\* push_stream.push(message, associated_data, tag)
Push ==
    /\ Len(wire) < MaxPush
    /\ \E in \in PushInputs :
        Pushed(in, push(push_stream, in.m, in.ad, in.tag))

\* push_stream.rekey()
PushRekey ==
    /\ Running
    /\ Count(phist, 0) < MaxRekey
    /\ push_stream' = rekey(push_stream)
    /\ phist' = Append(phist, 0)
    /\ seen' = [seen EXCEPT !.push = @ \cup {push_stream.state}]
    /\ last' = Last("push_rekey", 0, "none", NoResult)
    /\ UNCHANGED <<key, header, pull_stream, wire, qhist, others>>

\* Mutant of PullRekey: the two pull sessions share one state, so a rekey
\* of one is a rekey of the other.
PullRekeyShared ==
    /\ Running
    /\ Count(qhist, 0) < MaxRekey
    /\ pull_stream' = rekey(pull_stream)
    /\ twin' = rekey(twin)
    /\ qhist' = Append(qhist, 0)
    /\ seen' = [seen EXCEPT !.pull = @ \cup {pull_stream.state}]
    /\ last' = Last("pull_rekey", 0, "none", NoResult)
    /\ UNCHANGED <<key, header, push_stream, wire, phist, thist, tagop>>

\* pull_stream.rekey()
PullRekey ==
    /\ Running
    /\ Count(qhist, 0) < MaxRekey
    /\ pull_stream' = rekey(pull_stream)
    /\ qhist' = Append(qhist, 0)
    /\ seen' = [seen EXCEPT !.pull = @ \cup {pull_stream.state}]
    /\ last' = Last("pull_rekey", 0, "none", NoResult)
    /\ UNCHANGED <<key, header, push_stream, wire, phist, others>>

\* pull_stream.pull(ciphertext, associated_data) on any chunk of the wire as
\* it was pushed: in order, out of order or again.  A pushed chunk is at
\* least ABYTES long, so the build's overflow checks play no part here.
Pull ==
    \E i \in 1 .. Len(wire) :
        Pulled(i, "none", pull(pull_stream, wire[i].c, wire[i].ad, TRUE))

\* pull_stream.pull on the chunk the session is at, with one bit of the
\* chunk or of its associated data flipped.
PullTampered ==
    /\ Cursor <= Len(wire)
    /\ \E t \in Tampers(wire[Cursor]) :
        Pulled(Cursor, IF t.kind = "ad" THEN "ad" ELSE "chunk",
               pull(pull_stream, TamperChunk(wire[Cursor].c, t),
                    TamperAd(wire[Cursor].ad, t), TRUE))

\* pull_stream.pull on a ciphertext shorter than ABYTES, built with or
\* without overflow checks.
PullShort ==
    \E n \in ShortLens, oc \in BOOLEAN :
        Pulled(0, "short", pull(pull_stream, ShortCiphertext(n), <<>>, oc))

\* pull_stream.pull on a chunk that authenticates under the session's
\* state and whose tag byte has bits outside MESSAGE | PUSH | REKEY.
PullForeign ==
    /\ qhist = phist
    /\ \E b \in ForeignTags :
        Pulled(0, "foreign",
               pull(pull_stream, ForeignChunk(pull_stream.state, b),
                    <<>>, TRUE))

Next ==
    \/ Push
    \/ PushRekey
    \/ PullRekey
    \/ Pull
    \/ PullTampered
    \/ PullShort
    \/ PullForeign

Spec == Init /\ [][Next]_vars

\* Long runs: up to MaxLong pushes, pulled in the order pushed.
LongInputs ==
    PushInputs \cup {[m |-> <<>>, ad |-> <<>>, tag |-> MESSAGE]}

PushLong ==
    /\ Len(wire) < MaxLong
    /\ \E in \in LongInputs :
        Pushed(in, push(push_stream, in.m, in.ad, in.tag))

PullNext ==
    /\ Cursor <= Len(wire)
    /\ Pulled(Cursor, "none",
              pull(pull_stream, wire[Cursor].c, wire[Cursor].ad, TRUE))

NextLong ==
    \/ PushLong
    \/ PullNext

SpecLong == Init /\ [][NextLong]_vars

\* Two pull sessions: both made by init_pull from the same key and header,
\* each pulling the chunks in the order pushed and rekeying on its own.
TwinHeaders == {<<21, 31>>, <<22, 32>>}
TwinInputs ==
    {[m |-> <<5>>, ad |-> <<>>, tag |-> MESSAGE],
     [m |-> <<2, 6>>, ad |-> <<3>>, tag |-> REKEY]}

InitTwin == \E k \in Keys, rnd \in TwinHeaders : Setup(k, rnd, 0, 0)

PushTwin ==
    /\ Len(wire) < MaxPush
    /\ \E in \in TwinInputs :
        Pushed(in, push(push_stream, in.m, in.ad, in.tag))

\* The chunk the twin is at.
TwinCursor == Cardinality({n \in 1 .. Len(thist) : thist[n] > 0}) + 1

\* twin.pull(ciphertext, associated_data) on the chunk the twin is at.
TwinPull ==
    /\ Running
    /\ TwinCursor <= Len(wire)
    /\ LET r == pull(twin, wire[TwinCursor].c, wire[TwinCursor].ad, TRUE)
       IN  /\ twin' = r.self
           /\ thist' = IF r.res.kind = "Ok" THEN Append(thist, TwinCursor)
                       ELSE IF r.self # twin THEN Append(thist, -1)
                       ELSE thist
           /\ last' = Last("twin_pull", TwinCursor, "none", r.res)
    /\ UNCHANGED <<key, header, push_stream, pull_stream, wire, phist, qhist,
                   seen, tagop>>

\* twin.rekey()
TwinRekey ==
    /\ Running
    /\ Count(thist, 0) < MaxRekey
    /\ twin' = rekey(twin)
    /\ thist' = Append(thist, 0)
    /\ last' = Last("twin_rekey", 0, "none", NoResult)
    /\ UNCHANGED <<key, header, push_stream, pull_stream, wire, phist, qhist,
                   seen, tagop>>

NextTwin ==
    \/ PushTwin
    \/ PushRekey
    \/ PullRekey
    \/ PullNext
    \/ TwinPull
    \/ TwinRekey

SpecTwin == InitTwin /\ [][NextTwin]_vars

\* The Tag operations on their own: two bytes a and b, and one operation
\* at a time made on them.
InitTag ==
    \E k \in Keys, rnd \in Headers, a \in Byte, b \in Byte :
        Setup(k, rnd, a, b)

TagDone(op, res) ==
    /\ tagop' = TagOp(tagop.a, tagop.b, op, res)
    /\ UNCHANGED <<key, header, push_stream, pull_stream, wire, phist, qhist,
                   seen, last, twin, thist>>

\* Tag::from(a)
TagFromU8 == TagDone("from", Tag_from_u8(tagop.a))

\* Tag::from_bits(a)
TagFromBits ==
    TagDone("from_bits",
            IF from_bits(tagop.a).some
            THEN [kind |-> "Some", tag |-> from_bits(tagop.a).tag]
            ELSE [kind |-> "None", tag |-> 0])

\* a | b, for two Tags
TagUnion ==
    /\ from_bits(tagop.a).some /\ from_bits(tagop.b).some
    /\ TagDone("union", [kind |-> "Ok", tag |-> union(tagop.a, tagop.b)])

\* a & b, for two Tags
TagIntersection ==
    /\ from_bits(tagop.a).some /\ from_bits(tagop.b).some
    /\ TagDone("intersection",
               [kind |-> "Ok", tag |-> intersection(tagop.a, tagop.b)])

NextTag ==
    \/ TagFromU8
    \/ TagFromBits
    \/ TagUnion
    \/ TagIntersection

SpecTag == InitTag /\ [][NextTag]_vars

\* ------------------------------------------------------------ properties
IsPrefix(a, b) ==
    /\ Len(a) <= Len(b)
    /\ \A i \in 1 .. Len(a) : a[i] = b[i]

\* The pull session has done, in order, what the push session did first:
\* every chunk it pulled was the next one pushed, every rekey was matched.
InSync == IsPrefix(qhist, phist)

\* In step, and the push side's next move was the push of chunk Cursor.
AtNextChunk ==
    /\ InSync
    /\ Len(qhist) < Len(phist)
    /\ phist[Len(qhist) + 1] = Cursor

OkResult(m, tag) == [kind |-> "Ok", err |-> "", m |-> m, tag |-> tag]
AuthFailed(res) ==
    res = [kind |-> "Err", err |-> "AuthenticationFailed",
           m |-> <<>>, tag |-> 0]

\* C1 (round trip): whenever the pull session has pulled, in order, what was
\* pushed so far, pulling the next pushed chunk with its associated data
\* succeeds and returns exactly the pushed message and tag, under either
\* build; and once it has caught up, any (message, associated data, tag)
\* pushed next is returned by the pull of its chunk, the two sessions ending
\* in the same state.
RoundTrip ==
    /\ AtNextChunk =>
        \A oc \in BOOLEAN :
            pull(pull_stream, wire[Cursor].c, wire[Cursor].ad, oc).res
                = OkResult(wire[Cursor].m, wire[Cursor].tag)
    /\ qhist = phist =>
        \A m \in Messages, ad \in AssociatedData, tag \in Tag :
            LET p == push(push_stream, m, ad, tag)
                q == pull(pull_stream, p.res.c, ad, TRUE)
            IN  /\ p.res.kind = "Ok"
                /\ q.res = OkResult(m, tag)
                /\ q.self.state = p.self.state
    /\ (last.op = "pull" /\ last.tamper = "none" /\ last.res.kind = "Ok") =>
        /\ last.res.m = wire[last.idx].m
        /\ last.res.tag = wire[last.idx].tag

\* Three chunks with different tags were pushed and pulled back in order.
RoundTripWitness ==
    /\ qhist = <<1, 2, 3>>
    /\ phist = qhist
    /\ wire[1].tag = MESSAGE /\ wire[2].tag = PUSH /\ wire[3].tag = FINAL
    /\ last.op = "pull" /\ last.idx = 3
    /\ last.res = OkResult(wire[3].m, FINAL)

\* C2 (tamper detection): with the pull session in step and the next
\* pushed chunk before it, a pull of that chunk with any single bit of the
\* chunk or of its associated data flipped returns
\* Err(AuthenticationFailed), which carries no message byte and no tag, under
\* either build; and every pull the PullTampered action made ended so.
TamperDetected ==
    /\ AtNextChunk =>
        \A t \in Tampers(wire[Cursor]), oc \in BOOLEAN :
            AuthFailed(pull(pull_stream, TamperChunk(wire[Cursor].c, t),
                            TamperAd(wire[Cursor].ad, t), oc).res)
    /\ (last.op = "pull" /\ last.tamper \in {"chunk", "ad"} /\ InSync) =>
        AuthFailed(last.res)

\* A chunk with a flipped bit was pulled by a session in step, and failed.
TamperDetectedWitness ==
    /\ AtNextChunk
    /\ last.op = "pull" /\ last.tamper = "chunk" /\ last.idx = Cursor
    /\ AuthFailed(last.res)
    /\ Len(wire[Cursor].m) > 0

\* C3 (order sensitivity): with the pull session in step and chunk i next,
\* pulling a later chunk j first and chunk i after it makes at least one of
\* the two pulls fail with AuthenticationFailed.
OrderSensitive ==
    AtNextChunk =>
        \A j \in (Cursor + 1) .. Len(wire) :
            LET first == pull(pull_stream, wire[j].c, wire[j].ad, TRUE)
                second == pull(first.self, wire[Cursor].c,
                               wire[Cursor].ad, TRUE)
            IN  AuthFailed(first.res) \/ AuthFailed(second.res)

\* Chunk 2 was pulled while chunk 1 was the next one, and failed.
OrderSensitiveWitness ==
    /\ AtNextChunk
    /\ Cursor = 1
    /\ last.op = "pull" /\ last.tamper = "none" /\ last.idx = 2
    /\ AuthFailed(last.res)

\* The chunks the pull session has pulled with an Ok result.
PulledChunks == {qhist[n] : n \in 1 .. Len(qhist)} \ {0, -1}

\* C4 (no replay, no rewind): neither session is ever in a state it has left
\* behind, whatever pushes, pulls and rekeys came between; and a chunk the
\* pull session has pulled with an Ok result fails with AuthenticationFailed
\* when it is pulled again.
NoReplayNoRewind ==
    /\ push_stream.state \notin seen.push
    /\ pull_stream.state \notin seen.pull
    /\ \A i \in PulledChunks :
        AuthFailed(pull(pull_stream, wire[i].c, wire[i].ad, TRUE).res)
    /\ (last.op = "pull" /\ last.tamper = "none" /\ last.res.kind = "Ok") =>
        Count(qhist, last.idx) = 1

\* A chunk pulled before was pulled again, two state changes into the
\* session, and failed.
NoReplayWitness ==
    /\ last.op = "pull" /\ last.tamper = "none"
    /\ last.idx \in PulledChunks
    /\ AuthFailed(last.res)
    /\ Cardinality(seen.pull) >= 2

\* C5 (short input): a pull on a ciphertext shorter than ABYTES returns
\* Err(InvalidInput), having computed no output length and resized nothing,
\* and leaves the session state as it was.
ShortInputIsInvalidInput ==
    (last.op = "pull" /\ last.tamper = "short") =>
        /\ last.res.kind = "Err"
        /\ last.res.err = "InvalidInput"
        /\ -1 \notin {qhist[n] : n \in 1 .. Len(qhist)}

\* C6 (no abort on attacker-controlled input): every pull, whatever the
\* length and content of the ciphertext and whatever the tag byte of a chunk
\* that authenticates, ends by returning Ok or Err; none panics.
PullNeverAborts ==
    last.op = "pull" => last.res.kind \in {"Ok", "Err"}

RekeySymmetry ==
    /\ qhist = phist =>
        \A in \in LongInputs :
            LET both == push(rekey(push_stream), in.m, in.ad, in.tag)
                none == push(push_stream, in.m, in.ad, in.tag)
            IN  /\ pull(rekey(pull_stream), both.res.c, in.ad, TRUE).res
                       = OkResult(in.m, in.tag)
                /\ AuthFailed(pull(pull_stream, both.res.c, in.ad, TRUE).res)
                /\ AuthFailed(
                       pull(rekey(pull_stream), none.res.c, in.ad, TRUE).res)
    /\ (AtNextChunk /\ Len(qhist) > 0 /\ qhist[Len(qhist)] = 0) =>
        pull(pull_stream, wire[Cursor].c, wire[Cursor].ad, TRUE).res
            = OkResult(wire[Cursor].m, wire[Cursor].tag)
    /\ (/\ InSync
        /\ Len(phist) >= Len(qhist) + 2
        /\ phist[Len(qhist) + 1] = 0
        /\ phist[Len(qhist) + 2] = Cursor) =>
        AuthFailed(pull(pull_stream, wire[Cursor].c, wire[Cursor].ad,
                        TRUE).res)
    /\ (/\ Len(qhist) > 0
        /\ qhist[Len(qhist)] = 0
        /\ IsPrefix(SubSeq(qhist, 1, Len(qhist) - 1), phist)
        /\ Len(phist) >= Len(qhist)
        /\ phist[Len(qhist)] = Cursor) =>
        AuthFailed(pull(pull_stream, wire[Cursor].c, wire[Cursor].ad,
                        TRUE).res)
    /\ Len(wire) = Len(phist) - Count(phist, 0)

\* Both sessions called rekey() after chunk 1, and chunk 2 was pulled.
RekeySymmetryWitness ==
    /\ phist = <<1, 0, 2>>
    /\ qhist = phist
    /\ last.op = "pull" /\ last.idx = 2
    /\ last.res = OkResult(wire[2].m, wire[2].tag)

\* The tag carries the REKEY bit (REKEY and FINAL do).
HasRekeyBit(tag) == And(tag, REKEY) # 0

\* The state with the nonce advanced by one message (step 6).
Advanced(self) == [self EXCEPT !.state.nonce = AdvanceNonce(@)]

\* What push and a successful pull leave of `self` for a message tagged
\* `tag`, told from the claim: rekey after the advance when the tag carries
\* the REKEY bit or the counter is exhausted, the advance alone otherwise.
AfterMessage(self, tag) ==
    IF HasRekeyBit(tag) \/ Advanced(self).state.nonce.counter = CounterMax
    THEN rekey(Advanced(self))
    ELSE Advanced(self)

\* C9 (tag-triggered rekey): every push, and every successful pull, of a
\* message tagged REKEY or FINAL leaves the session in the state rekey()
\* makes of the state with the nonce advanced: a new subkey, the counter at
\* zero; with tag MESSAGE or PUSH and the counter below exhaustion it leaves
\* the subkey as it was and the counter one higher.  The push made last, if
\* tagged REKEY or FINAL, left the counter at zero.
TagTriggeredRekey ==
    /\ \A m \in Messages, tag \in Tag :
        LET ad == IF m = <<>> THEN <<>> ELSE <<3>>
            p == push(push_stream, m, ad, tag)
            after == p.self.state
        IN  /\ p.self = AfterMessage(push_stream, tag)
            /\ HasRekeyBit(tag) =>
                /\ after.nonce.counter = 0
                /\ after.k # push_stream.state.k
            /\ (/\ ~HasRekeyBit(tag)
                /\ push_stream.state.nonce.counter + 1 < CounterMax) =>
                /\ after.k = push_stream.state.k
                /\ after.nonce.counter
                       = push_stream.state.nonce.counter + 1
            /\ qhist = phist =>
                LET q == pull(pull_stream, p.res.c, ad, TRUE)
                IN  /\ q.res.kind = "Ok"
                    /\ q.self = AfterMessage(pull_stream, tag)
    /\ (last.op = "push" /\ HasRekeyBit(wire[last.idx].tag)) =>
        push_stream.state.nonce.counter = 0
    /\ (last.op = "pull" /\ last.res.kind = "Ok"
            /\ HasRekeyBit(last.res.tag)) =>
        pull_stream.state.nonce.counter = 0

\* A MESSAGE chunk, then a FINAL chunk were pushed, and the pull of the
\* FINAL chunk has just left the pull session rekeyed.
TagTriggeredRekeyWitness ==
    /\ Len(wire) = 2
    /\ wire[1].tag = MESSAGE /\ wire[2].tag = FINAL
    /\ last.op = "pull" /\ last.idx = 2 /\ last.res.tag = FINAL
    /\ pull_stream.state.nonce.counter = 0
    /\ pull_stream.state = push_stream.state
    /\ pull_stream.state.k # init_pull(key, header).state.k

\* Told from the wire alone: the block counter after the first n chunks,
\* and the rekeys made by then.  A chunk rekeys when its tag carries the
\* REKEY bit or, automatically, when it takes the counter to its maximum.
RECURSIVE CounterAfter(_)
CounterAfter(n) ==
    IF n = 0 THEN 0
    ELSE IF HasRekeyBit(wire[n].tag) \/ CounterAfter(n - 1) + 1 = CounterMax
    THEN 0
    ELSE CounterAfter(n - 1) + 1

AutoRekeyAt(n) ==
    ~HasRekeyBit(wire[n].tag) /\ CounterAfter(n - 1) + 1 = CounterMax

RekeysAfter(n) ==
    Cardinality({i \in 1 .. n : HasRekeyBit(wire[i].tag) \/ AutoRekeyAt(i)})

\* The subkey a session holds after r rekeys is r derivations deep.
KeyDepth(self) == (Len(self.state.k) - 2) \div 2

\* C10 (auto-rekey transparency): the push session's counter never rests at
\* its maximum: the push that takes it there rekeys, with no call from the
\* caller, so that the session has rekeyed once per chunk that carries the
\* REKEY bit or exhausts the counter; the pull session, pulling the chunks
\* in the order pushed, has rekeyed at the same chunks, holds the push
\* session's state when it has caught up, and pulls every next chunk, those
\* after an automatic rekey too, with the pushed message and tag.
AutoRekeyTransparent ==
    /\ push_stream.state.nonce.counter = CounterAfter(Len(wire))
    /\ push_stream.state.nonce.counter < CounterMax
    /\ KeyDepth(push_stream) = RekeysAfter(Len(wire))
    /\ pull_stream.state.nonce.counter = CounterAfter(Cursor - 1)
    /\ pull_stream.state.nonce.counter < CounterMax
    /\ KeyDepth(pull_stream) = RekeysAfter(Cursor - 1)
    /\ Cursor = Len(wire) + 1 => pull_stream.state = push_stream.state
    /\ Cursor <= Len(wire) =>
        pull(pull_stream, wire[Cursor].c, wire[Cursor].ad, TRUE).res
            = OkResult(wire[Cursor].m, wire[Cursor].tag)
    /\ (last.op = "pull" /\ last.idx > 0) =>
        last.res = OkResult(wire[last.idx].m, wire[last.idx].tag)

\* Three chunks without the REKEY bit exhausted the counter, both sessions
\* rekeyed at the third, and the fourth chunk has just been pulled.
AutoRekeyWitness ==
    /\ Len(wire) = 4
    /\ \A i \in 1 .. 3 : ~HasRekeyBit(wire[i].tag)
    /\ AutoRekeyAt(3)
    /\ Cursor = 5
    /\ last.op = "pull" /\ last.idx = 4
    /\ last.res = OkResult(wire[4].m, wire[4].tag)
    /\ KeyDepth(pull_stream) >= 1

\* A FINAL chunk has been pushed; the pull session has pulled one.
FinalPushed == \E i \in 1 .. Len(wire) : wire[i].tag = FINAL
FinalPulled == \E i \in PulledChunks : wire[i].tag = FINAL

\* C11 (no terminal state): FINAL closes nothing.  After a FINAL chunk has
\* been pushed every push still returns Ok and rekey() still acts; after the
\* pull session has pulled a FINAL chunk rekey() still acts on it, the next
\* chunk pushed is pulled with its message and tag, and once it has caught
\* up any message pushed next is too; every chunk pulled with Ok after a
\* FINAL one came back as pushed.
NoTerminalState ==
    /\ FinalPushed =>
        /\ \A in \in LongInputs :
            push(push_stream, in.m, in.ad, in.tag).res.kind = "Ok"
        /\ rekey(push_stream) # push_stream
    /\ FinalPulled =>
        /\ rekey(pull_stream) # pull_stream
        /\ AtNextChunk =>
            pull(pull_stream, wire[Cursor].c, wire[Cursor].ad, TRUE).res
                = OkResult(wire[Cursor].m, wire[Cursor].tag)
        /\ qhist = phist =>
            \A in \in LongInputs :
                LET p == push(push_stream, in.m, in.ad, in.tag)
                IN  pull(pull_stream, p.res.c, in.ad, TRUE).res
                        = OkResult(in.m, in.tag)
    /\ (/\ last.op = "pull" /\ last.tamper = "none"
        /\ last.res.kind = "Ok"
        /\ \E i \in 1 .. (last.idx - 1) : wire[i].tag = FINAL) =>
        last.res = OkResult(wire[last.idx].m, wire[last.idx].tag)

\* A FINAL chunk was pushed and pulled, both sessions called rekey(), and a
\* second chunk was pushed and has just been pulled.
NoTerminalStateWitness ==
    /\ Len(wire) = 2
    /\ wire[1].tag = FINAL
    /\ phist = <<1, 0, 2>>
    /\ qhist = phist
    /\ last.op = "pull" /\ last.idx = 2
    /\ last.res = OkResult(wire[2].m, wire[2].tag)

\* C12 (chunk sizing): ABYTES is 17; every push, of an empty, a one-byte
\* or a two-byte message, with or without associated data, under each tag,
\* returns Ok with a ciphertext of exactly len(message) + ABYTES bytes, and
\* so is every chunk on the wire; the pull
\* of the next chunk, and every pull that returned Ok, returns a message of
\* exactly len(ciphertext) - ABYTES bytes.
ChunkSizing ==
    /\ ABYTES = 17
    /\ \A in \in LongInputs :
        LET r == push(push_stream, in.m, in.ad, in.tag).res
        IN  /\ r.kind = "Ok"
            /\ r.c.len = Len(in.m) + ABYTES
    /\ \A i \in 1 .. Len(wire) : wire[i].c.len = Len(wire[i].m) + ABYTES
    /\ AtNextChunk =>
        LET q == pull(pull_stream, wire[Cursor].c, wire[Cursor].ad, TRUE)
        IN  /\ q.res.kind = "Ok"
            /\ wire[Cursor].c.len >= ABYTES
            /\ Len(q.res.m) = wire[Cursor].c.len - ABYTES
    /\ (last.op = "pull" /\ last.res.kind = "Ok") =>
        Len(last.res.m) = wire[last.idx].c.len - ABYTES

\* A two-byte message went out as a 19-byte chunk and came back as two bytes.
ChunkSizingWitness ==
    /\ last.op = "pull" /\ last.res.kind = "Ok"
    /\ wire[last.idx].c.len = 19
    /\ Len(last.res.m) = 2
    /\ Len(wire[last.idx].m) = 2

RECURSIVE PullAlone(_, _)
PullAlone(h, n) ==
    IF n = 0 THEN init_pull(key, header)
    ELSE IF h[n] = 0 THEN rekey(PullAlone(h, n - 1))
    ELSE pull(PullAlone(h, n - 1), wire[h[n]].c, wire[h[n]].ad, TRUE).self

RECURSIVE PushAlone(_)
PushAlone(n) ==
    IF n = 0 THEN init_push(key, header).stream
    ELSE IF phist[n] = 0 THEN rekey(PushAlone(n - 1))
    ELSE push(PushAlone(n - 1), wire[phist[n]].m, wire[phist[n]].ad,
              wire[phist[n]].tag).self

\* C17 (session independence): whatever the interleaving of the three
\* sessions' pushes, pulls and rekeys, each session holds the state its own
\* operations produce when run alone from its init call, every chunk on the
\* wire is the one the push session run alone puts out, and the result of
\* the last pull is the one that session run alone returns.
SessionIndependence ==
    /\ push_stream = PushAlone(Len(phist))
    /\ pull_stream = PullAlone(qhist, Len(qhist))
    /\ twin = PullAlone(thist, Len(thist))
    /\ \A n \in 1 .. Len(phist) :
        phist[n] # 0 =>
            push(PushAlone(n - 1), wire[phist[n]].m, wire[phist[n]].ad,
                 wire[phist[n]].tag).res.c = wire[phist[n]].c
    /\ (last.op = "pull" /\ last.res.kind = "Ok") =>
        pull(PullAlone(qhist, Len(qhist) - 1), wire[last.idx].c,
             wire[last.idx].ad, TRUE).res = last.res
    /\ (last.op = "twin_pull" /\ last.res.kind = "Ok") =>
        pull(PullAlone(thist, Len(thist) - 1), wire[last.idx].c,
             wire[last.idx].ad, TRUE).res = last.res

\* The three sessions have each gone their own way: two chunks pushed, both
\* pulled by one pull session, one pulled by the twin, which then rekeyed.
SessionIndependenceWitness ==
    /\ phist = <<1, 2>>
    /\ qhist = <<1, 2>>
    /\ thist = <<1, 0>>
    /\ last.op = "twin_rekey"
    /\ twin.state # pull_stream.state

\* The tag holds every bit of the flag.
contains(tag, flag) == And(tag, flag) = flag

\* C14 (tag parsing of untrusted bytes): converting a byte to a Tag fails
\* with the error InvalidTag when the byte has a bit outside MESSAGE | PUSH
\* | REKEY and yields the Tag of these bits otherwise; the union and the
\* intersection of two Tags are Tags.
ParseFailsWithInvalidTag ==
    /\ tagop.op = "from" =>
        tagop.res = IF And(tagop.a, Tag_all) = tagop.a
                    THEN [kind |-> "Ok", tag |-> tagop.a]
                    ELSE [kind |-> "InvalidTag", tag |-> 0]
    /\ tagop.op \in {"union", "intersection"} =>
        tagop.res.kind = "Ok" /\ tagop.res.tag \in Tag

\* C15 (FINAL composition): FINAL is PUSH | REKEY; the byte of FINAL parses,
\* by Tag::from and by Tag::from_bits, to a tag that contains PUSH and
\* contains REKEY, and the union of PUSH and REKEY is FINAL.
FinalComposition ==
    /\ FINAL = union(PUSH, REKEY)
    /\ from_bits(FINAL).some
    /\ contains(from_bits(FINAL).tag, PUSH)
    /\ contains(from_bits(FINAL).tag, REKEY)
    /\ (tagop.op \in {"from", "from_bits"}
            /\ tagop.a = Or(TAG_PUSH, TAG_REKEY)) =>
        /\ tagop.res.kind \in {"Ok", "Some"}
        /\ contains(tagop.res.tag, PUSH)
        /\ contains(tagop.res.tag, REKEY)
        /\ tagop.res.tag = FINAL
    /\ (tagop.op = "union" /\ {tagop.a, tagop.b} = {PUSH, REKEY}) =>
        tagop.res.tag = FINAL

\* The byte of FINAL has been parsed by Tag::from.
FinalCompositionWitness ==
    /\ tagop.op = "from"
    /\ tagop.a = 3
    /\ tagop.res = [kind |-> "Ok", tag |-> FINAL]

\* C16 (tag byte round trip): the byte of every Tag parses to that Tag, and
\* every byte that parses is the byte of the Tag it yields; with the pull
\* session caught up, a chunk pushed with any of MESSAGE, PUSH, REKEY and
\* FINAL is pulled with that tag, and every pull that returned Ok returned
\* the tag its chunk was pushed with.
TagRoundTrip ==
    /\ \A t \in Tag : from_bits(t) = [some |-> TRUE, tag |-> t]
    /\ \A b \in Byte : from_bits(b).some => from_bits(b).tag = b
    /\ qhist = phist =>
        \A t \in {MESSAGE, PUSH, REKEY, FINAL} :
            LET p == push(push_stream, <<5>>, <<>>, t)
                q == pull(pull_stream, p.res.c, <<>>, TRUE)
            IN  q.res.kind = "Ok" /\ q.res.tag = t
    /\ (last.op = "pull" /\ last.res.kind = "Ok") =>
        last.res.tag = wire[last.idx].tag

\* Chunks tagged PUSH, REKEY, FINAL and MESSAGE were pushed and pulled, the
\* MESSAGE one last.
TagRoundTripWitness ==
    /\ Len(wire) = 4
    /\ wire[1].tag = PUSH /\ wire[2].tag = REKEY
    /\ wire[3].tag = FINAL /\ wire[4].tag = MESSAGE
    /\ qhist = <<1, 2, 3, 4>>
    /\ last.op = "pull" /\ last.idx = 4 /\ last.res.tag = MESSAGE

\* C18 (lockstep): whenever the pull session has pulled, with Ok, and
\* rekeyed exactly as the push session pushed and rekeyed over its first
\* moves, it holds the state the push session held after those moves; caught
\* up, it holds the push session's state, and the pull of the next chunk
\* pushed takes it to the state that push left.
Lockstep ==
    /\ InSync => pull_stream.state = PushAlone(Len(qhist)).state
    /\ qhist = phist => pull_stream.state = push_stream.state
    /\ AtNextChunk =>
        pull(pull_stream, wire[Cursor].c, wire[Cursor].ad, TRUE).self.state
            = PushAlone(Len(qhist) + 1).state

\* Both sessions rekeyed, then a PUSH chunk and a REKEY chunk were pushed and
\* pulled; the sessions hold the same state.
LockstepWitness ==
    /\ phist = <<0, 1, 2>>
    /\ qhist = phist
    /\ wire[1].tag = PUSH /\ wire[2].tag = REKEY
    /\ last.op = "pull" /\ last.idx = 2 /\ last.res.kind = "Ok"
    /\ pull_stream.state = push_stream.state

\* Told from a history alone: the block counter after its first n entries,
\* a rekey or a chunk that rekeys taking it to zero, any other chunk one up.
RECURSIVE CounterOf(_, _)
CounterOf(h, n) ==
    IF n = 0 THEN 0
    ELSE IF h[n] = 0 THEN 0
    ELSE IF \/ HasRekeyBit(wire[h[n]].tag)
            \/ CounterOf(h, n - 1) + 1 = CounterMax
    THEN 0
    ELSE CounterOf(h, n - 1) + 1

\* C19 (counter discipline): a session that has done nothing holds a zero
\* counter and the header's last part as nonce suffix; a push, and a
\* successful pull, that does not rekey takes the counter one up and leaves
\* the suffix, one that rekeys leaves the counter at zero, and so does
\* rekey(); the counter of either session is the number of chunks since its
\* last rekey; a counter at the top of its range advances to zero with a
\* carry into the suffix.
CounterDiscipline ==
    /\ phist = <<>> =>
        push_stream.state.nonce = [counter |-> 0, inonce |-> header[2]]
    /\ qhist = <<>> =>
        pull_stream.state.nonce = [counter |-> 0, inonce |-> header[2]]
    /\ push_stream.state.nonce.counter = CounterOf(phist, Len(phist))
    /\ -1 \notin {qhist[n] : n \in 1 .. Len(qhist)} =>
        pull_stream.state.nonce.counter = CounterOf(qhist, Len(qhist))
    /\ \A tag \in Tag :
        LET before == push_stream.state
            after == push(push_stream, <<5>>, <<>>, tag).self.state
        IN  IF after.k = before.k
            THEN after.nonce = [counter |-> before.nonce.counter + 1,
                                inonce |-> before.nonce.inonce]
            ELSE after.nonce.counter = 0
    /\ AtNextChunk =>
        LET before == pull_stream.state
            after == pull(pull_stream, wire[Cursor].c, wire[Cursor].ad,
                          TRUE).self.state
        IN  IF after.k = before.k
            THEN after.nonce = [counter |-> before.nonce.counter + 1,
                                inonce |-> before.nonce.inonce]
            ELSE after.nonce.counter = 0
    /\ rekey(push_stream).state.nonce.counter = 0
    /\ rekey(pull_stream).state.nonce.counter = 0
    /\ last.op = "push_rekey" => push_stream.state.nonce.counter = 0
    /\ last.op = "pull_rekey" => pull_stream.state.nonce.counter = 0
    /\ AdvanceNonce([counter |-> Pow2(CounterBits) - 1,
                     inonce |-> push_stream.state.nonce.inonce])
           = [counter |-> 0,
              inonce |-> push_stream.state.nonce.inonce + 1]

\* Two chunks that do not rekey took the push session's counter to two, and
\* rekey() has just taken it back to zero.
CounterDisciplineWitness ==
    /\ phist = <<1, 2, 0>>
    /\ ~HasRekeyBit(wire[1].tag) /\ ~HasRekeyBit(wire[2].tag)
    /\ CounterOf(phist, 2) = 2
    /\ last.op = "push_rekey"
    /\ push_stream.state.nonce.counter = 0

\* C20 (direction is fixed at construction): the session init_push made is
\* a Push session and the sessions init_pull made are Pull sessions in every
\* state; a Push session admits push and rekey and no pull, a Pull session
\* pull and rekey and no push; push, pull and rekey return a session of the
\* mode they were given; and every operation made was one its session
\* admits.
DirectionFixed ==
    /\ push_stream.phantom = "Push"
    /\ pull_stream.phantom = "Pull"
    /\ twin.phantom = "Pull"
    /\ Admits(push_stream, "push") /\ ~Admits(push_stream, "pull")
    /\ Admits(pull_stream, "pull") /\ ~Admits(pull_stream, "push")
    /\ Admits(push_stream, "rekey") /\ Admits(pull_stream, "rekey")
    /\ rekey(push_stream).phantom = "Push"
    /\ rekey(pull_stream).phantom = "Pull"
    /\ \A in \in PushInputs :
        push(push_stream, in.m, in.ad, in.tag).self.phantom = "Push"
    /\ \A i \in 1 .. Len(wire) :
        pull(pull_stream, wire[i].c, wire[i].ad, TRUE).self.phantom = "Pull"

\* Both sessions have rekeyed and a chunk has gone from one to the other.
DirectionFixedWitness ==
    /\ phist = <<0, 1>>
    /\ qhist = phist
    /\ last.op = "pull" /\ last.res.kind = "Ok"
    /\ push_stream.phantom = "Push"
    /\ pull_stream.phantom = "Pull"

====
